---- MODULE Spec2Model ----
(***************************************************************************)
(* Model of the scan-plan compiler of rsoxs_scans/constructor.py:          *)
(*   get_nexafs_scan_params   (plan_speed_scan)                            *)
(*   get_energies             (generate_energy_list)                       *)
(*   construct_exposure_times (schedule_exposures)                         *)
(*                                                                         *)
(* Numbers.  A Python number is a record [ty, m]: ty is "int" or "float"   *)
(* and m is the value in thousandths (250 eV is m = 250000, the weight 0.1 *)
(* is m = 100).  Quotients are kept as exact fractions and rounded with    *)
(* round-half-to-even as numpy.round does.  The IEEE values inf and nan    *)
(* that numpy produces on a division by zero are kept as separate kinds.   *)
(*                                                                         *)
(* Diagnostics.  What a call prints, plots or warns about is recorded in   *)
(* the variable diag; the keyword arguments a call passes besides the      *)
(* named ones are the field kwargs of the call.                            *)
(***************************************************************************)
EXTENDS Integers, Sequences, FiniteSets, TLC

VARIABLES call, pc, ret, diag

vars == <<call, pc, ret, diag>>

Milli == 10 * 10 * 10

\* ------------------------------------------------------------------------
\* Python values
\* ------------------------------------------------------------------------
Val(ty, s, m, v, a) == [ty |-> ty, s |-> s, m |-> m, v |-> v, a |-> a]

PyNone == Val("none", "", 0, <<>>, <<>>)

PyStr(s) == Val("str", s, 0, <<>>, <<>>)

PyInt(n) == Val("int", "", n * Milli, <<>>, <<>>)

PyFloat(m) == Val("float", "", m, <<>>, <<>>)

PyNaN == Val("nan", "", 0, <<>>, <<>>)

PyTuple(v) == Val("tuple", "", 0, v, <<>>)

PyList(v) == Val("list", "", 0, v, <<>>)

\* a numpy array: dtype "int" or "float", elements in thousandths
NdArray(dtype, a) == Val("ndarray_" \o dtype, "", 0, <<>>, a)

IsNumber(x) == x.ty \in {"int", "float"}

IsSequence(x) == x.ty \in {"tuple", "list"}

\* ------------------------------------------------------------------------
\* Arithmetic helpers
\* ------------------------------------------------------------------------
Abs(x) == IF x < 0 THEN -x ELSE x

RECURSIVE Gcd(_, _)
Gcd(a, b) == IF b = 0 THEN a ELSE Gcd(b, a % b)

\* a fraction in lowest terms with a positive denominator
Frac(n, d) ==
    LET g == Gcd(Abs(n), Abs(d))
        s == IF d < 0 THEN -1 ELSE 1
    IN  [n |-> s * (n \div g), d |-> s * (d \div g)]

FracAdd(x, y) == Frac(x.n * y.d + y.n * x.d, x.d * y.d)

FracMul(x, y) == Frac(x.n * y.n, x.d * y.d)

\* floor(p / q) for q > 0
FloorDiv(p, q) == IF p >= 0 THEN p \div q ELSE -(((-p) + q - 1) \div q)

\* numpy.round / numpy.rint of the fraction p / q: nearest integer, a tie
\* goes to the even neighbour.  q # 0.
RoundHalfEven(p, q) ==
    LET pp == IF q < 0 THEN -p ELSE p
        qq == Abs(q)
        f  == FloorDiv(pp, qq)
        r  == pp - f * qq
    IN  IF 2 * r < qq THEN f
        ELSE IF 2 * r > qq THEN f + 1
        ELSE IF f % 2 = 0 THEN f ELSE f + 1

\* int(x) of a float given in thousandths, and the cast numpy applies when a
\* float is stored into an integer array: truncation towards zero.
TruncToInt(m) == IF m >= 0 THEN m \div Milli ELSE -((-m) \div Milli)

\* str.lower() on the strings of the model
Lower(s) ==
    CASE s = "Carbon"   -> "carbon"
      [] s = "CARBON"   -> "carbon"
      [] s = "C"        -> "c"
      [] s = "CK"       -> "ck"
      [] s = "Ck"       -> "ck"
      [] s = "CarbonK"  -> "carbonk"
      [] s = "N"        -> "n"
      [] s = "O"        -> "o"
      [] s = "Ca"       -> "ca"
      [] s = "Nitrogen" -> "nitrogen"
      [] s = "Fluorine" -> "fluorine"
      [] s = "Oxygen"   -> "oxygen"
      [] s = "Calcium"  -> "calcium"
      [] s = "Full"     -> "full"
      [] s = "Short"    -> "short"
      [] s = "Fast"     -> "fast"
      [] OTHER          -> s

\* str(x).lower() as used for the table look-ups: the text of a number or of
\* a tuple is no key of any table.
StrLower(x) == IF x.ty = "str" THEN Lower(x.s) ELSE "<repr>"

\* the key made from the number of zones, not of thresholds
DefaultKeyOfZones(n) == "default " \o ToString(n - 1)

\* f"default {n}"
DefaultKey(n) == "default " \o ToString(n)

RECURSIVE SumSeq(_)
SumSeq(s) == IF s = <<>> THEN 0 ELSE Head(s) + SumSeq(Tail(s))

\* ------------------------------------------------------------------------
\* Results of a call
\* ------------------------------------------------------------------------
NoTime == [n |-> 0, d |-> 1]

Raised(err) ==
    [status |-> "raised", err |-> err, val |-> PyNone, params |-> <<>>,
     time |-> NoTime]

Returned(val, params, time) ==
    [status |-> "returned", err |-> "", val |-> val, params |-> params,
     time |-> time]

Pending ==
    [status |-> "pending", err |-> "", val |-> PyNone, params |-> <<>>,
     time |-> NoTime]

\* ------------------------------------------------------------------------
\* Diagnostic output of a call
\* ------------------------------------------------------------------------
Diag(printed, plotted, warned) ==
    [printed |-> printed, plotted |-> plotted, warned |-> warned]

NoDiag == Diag(FALSE, FALSE, FALSE)

\* lines 251-257: a call that reaches its return prints the energies and
\* their number and plots them, unless it is quiet
energies_diag(result, quiet) ==
    IF result.status = "returned" /\ ~quiet THEN Diag(TRUE, TRUE, FALSE)
    ELSE NoDiag

\* lines 108-113: a call that reaches its return prints the zones, their
\* number and the time, unless it is quiet
nexafs_diag(result, quiet) ==
    IF result.status = "returned" /\ ~quiet THEN Diag(TRUE, FALSE, FALSE)
    ELSE NoDiag

\* the seconds above which a step draws the warning: the value is set in
\* defaults.py; the message of the warning speaks of 30 minutes
dafault_warning_step_time == 1800

\* the test that lets the warning through at the threshold itself
long_scan_warning_from(time) == time >= dafault_warning_step_time * Milli

\* line 306: time > dafault_warning_step_time, the time in thousandths
long_scan_warning(time) == time > dafault_warning_step_time * Milli

\* lines 306-307: the function prints and plots nothing and reads quiet
\* nowhere; a call that reaches the test warns when the time is over
exposure_diag(result, quiet) ==
    IF result.status = "returned" /\ long_scan_warning(result.time.n)
    THEN Diag(FALSE, FALSE, TRUE)
    ELSE NoDiag

\* ------------------------------------------------------------------------
\* Lookup tables shared by both planners
\* ------------------------------------------------------------------------
edge_names ==
    [c  |-> "Carbon",   carbonk   |-> "Carbon",   ck  |-> "Carbon",
     n  |-> "Nitrogen", nitrogenk |-> "Nitrogen", nk  |-> "Nitrogen",
     f  |-> "Fluorine", fluorinek |-> "Fluorine", fk  |-> "Fluorine",
     o  |-> "Oxygen",   oxygenk   |-> "Oxygen",   ok  |-> "Oxygen",
     ca |-> "Calcium",  calciumk  |-> "Calcium",  cak |-> "Calcium"]

\* a tuple of Python ints
Ints(s) == [i \in DOMAIN s |-> PyInt(s[i])]

\* ------------------------------------------------------------------------
\* get_energies
\* ------------------------------------------------------------------------
energies_edges ==
    [carbon    |-> Ints(<<250, 270, 282, 287, 292, 305, 350>>),
     oxygen    |-> Ints(<<510, 525, 540, 560>>),
     fluorine  |-> Ints(<<670, 680, 690, 700, 740>>),
     aluminium |-> Ints(<<1540, 1560, 1580, 1600>>),
     nitrogen  |-> Ints(<<380, 397, 407, 440>>),
     zincl     |-> Ints(<<1000, 1015, 1035, 1085>>),
     sulfurl   |-> Ints(<<150, 160, 170, 200>>),
     calcium   |-> <<PyInt(320), PyInt(340), PyInt(345), PyInt(349),
                     PyFloat(349500), PyFloat(352500), PyInt(353),
                     PyInt(355), PyInt(360), PyInt(380)>>]

intervals_table ==
    ("carbon" :> <<PyInt(5), PyInt(1), PyFloat(100), PyFloat(200), PyInt(1),
                   PyInt(5)>>) @@
    ("carbon nonaromatic" :> <<PyInt(5), PyInt(1), PyFloat(200), PyFloat(100),
                               PyInt(1), PyInt(5)>>) @@
    ("default 4" :> <<PyInt(2), PyFloat(200), PyInt(2)>>) @@
    ("default 5" :> <<PyInt(2), PyFloat(200), PyFloat(600), PyInt(2)>>) @@
    ("default 6" :> <<PyInt(2), PyFloat(600), PyFloat(200), PyFloat(600),
                      PyInt(2)>>) @@
    ("default 2" :> <<PyInt(2)>>) @@
    ("default 3" :> <<PyInt(2), PyFloat(200)>>) @@
    ("calcium" :> <<PyInt(5), PyInt(1), PyFloat(500), PyFloat(100),
                    PyFloat(250), PyFloat(100), PyFloat(500), PyInt(1),
                    PyInt(5)>>)

frames_table ==
    ("full" :> 112) @@ ("" :> 112) @@ ("short" :> 56) @@ ("very short" :> 40)

\* lines 198-210: the edge is looked up through the alias table and the edge
\* table; a bare number becomes the zero-width edge (v, v)
energies_resolve_edge(edge) ==
    LET isalias == edge.ty = "str" /\ Lower(edge.s) \in DOMAIN edge_names
        e1 == IF isalias THEN PyStr(edge_names[Lower(edge.s)]) ELSE edge
        edge_input == IF isalias THEN PyStr(Lower(e1.s)) ELSE edge
        e2 == IF edge.ty = "str" /\ Lower(e1.s) \in DOMAIN energies_edges
              THEN PyTuple(energies_edges[Lower(e1.s)]) ELSE e1
        singleinput == IsNumber(edge_input)
        e3 == IF singleinput THEN PyTuple(<<edge_input, edge_input>>) ELSE e2
    IN  [edge |-> e3, edge_input |-> edge_input, singleinput |-> singleinput]

\* lines 211-218
resolve_frames(frames) ==
    LET f1 == IF frames.ty = "nan" THEN PyStr("full") ELSE frames
    IN  IF f1.ty = "str" /\ Lower(f1.s) \in DOMAIN frames_table
        THEN PyInt(frames_table[Lower(f1.s)]) ELSE f1

\* lines 220-229: the ratios after the look-ups; ty "keyerror" stands for the
\* KeyError of intervals_table[ratios]
energies_resolve_ratios(ratios, edge_input, edge) ==
    IF ratios.ty = "none" \/ (ratios.ty = "str" /\ ratios.s = "")
    THEN IF StrLower(edge_input) \in DOMAIN intervals_table
         THEN PyTuple(intervals_table[Lower(edge_input.s)])
         ELSE IF DefaultKey(Len(edge.v)) \in DOMAIN intervals_table
         THEN PyTuple(intervals_table[DefaultKey(Len(edge.v))])
         ELSE PyTuple([i \in 1..(Len(edge.v) - 1) |-> PyInt(1)])
    ELSE IF ratios.ty \notin {"tuple", "int", "float", "list"}
         THEN IF ratios.ty = "str" /\ ratios.s \in DOMAIN intervals_table
              THEN PyTuple(intervals_table[ratios.s])
              ELSE Val("keyerror", "", 0, <<>>, <<>>)
         ELSE ratios

\* 0.01 in thousandths (lines 244, 246, 248)
min_ratio == 10

\* line 236: numpy.zeros_like(ratios) is an integer array when every weight
\* is a Python int and a float array otherwise (also when there is none)
numpnts_dtype(ratios) ==
    IF ratios # <<>> /\ \A i \in DOMAIN ratios : ratios[i].ty = "int"
    THEN "int" ELSE "float"

\* line 238, right-hand side, with multiple = 1:
\* np.round(np.abs(edge[i+1] - edge[i]) / (interval * multiple))
\* numpy divides by zero without raising: x/0 is inf, 0/0 is nan
first_pass_count(e0, e1, interval) ==
    LET d == Abs(e1 - e0)
    IN  IF interval = 0
        THEN IF d = 0 THEN [k |-> "nan", n |-> 0] ELSE [k |-> "inf", n |-> 0]
        ELSE [k |-> "fin", n |-> RoundHalfEven(d, interval)]

\* lines 237-238: the array numpnts
first_pass(edge, ratios) ==
    [i \in DOMAIN ratios |->
        first_pass_count(edge[i].m, edge[i + 1].m, ratios[i].m)]

\* line 238, the store into numpnts: an integer array takes neither inf
\* (OverflowError) nor nan (ValueError); the first offending zone raises
first_pass_error(counts, dtype) ==
    LET bad == {i \in DOMAIN counts : counts[i].k # "fin"}
        first == CHOOSE i \in bad : \A j \in bad : i <= j
    IN  IF dtype = "float" \/ bad = {} THEN ""
        ELSE IF counts[first].k = "inf" THEN "OverflowError"
        ELSE "ValueError"

\* line 239: steps = sum(numpnts)
sum_numpnts(counts) ==
    IF \E i \in DOMAIN counts : counts[i].k = "nan" THEN [k |-> "nan", n |-> 0]
    ELSE IF \E i \in DOMAIN counts : counts[i].k = "inf"
    THEN [k |-> "inf", n |-> 0]
    ELSE [k |-> "fin", n |-> SumSeq([i \in DOMAIN counts |-> counts[i].n])]

\* line 240: multiple = 1 * steps / frames, the fraction n/d (d > 0) or an
\* IEEE special; frames is in thousandths
scale_multiple(steps, frames) ==
    CASE steps.k = "nan" -> [k |-> "nan", n |-> 0, d |-> 1]
      [] steps.k = "inf" ->
            [k |-> IF frames >= 0 THEN "inf" ELSE "ninf", n |-> 0, d |-> 1]
      [] steps.k = "fin" /\ frames = 0 ->
            [k |-> IF steps.n > 0 THEN "inf"
                   ELSE IF steps.n < 0 THEN "ninf" ELSE "nan",
             n |-> 0, d |-> 1]
      [] OTHER ->
            LET q == Frac(steps.n * Milli, frames)
            IN  [k |-> "fin", n |-> q.n, d |-> q.d]

\* line 246: multiple < 0.01
multiple_too_small(multiple) ==
    CASE multiple.k = "fin" -> multiple.n * Milli < min_ratio * multiple.d
      [] multiple.k = "ninf" -> TRUE
      [] OTHER -> FALSE

\* the number of points with the quotient cut off instead of rounded
numpnt_truncated(e0, e1, interval, multiple) ==
    LET d == Abs(e1 - e0)
        prod == FracMul(Frac(interval, Milli), Frac(multiple.n, multiple.d))
        small == multiple.k = "nan"
                 \/ (multiple.k = "fin" /\ prod.n * Milli < min_ratio * prod.d)
        q == FracMul(Frac(d, Milli), Frac(prod.d, prod.n))
        cnt == IF multiple.k = "inf" THEN 0
               ELSE IF small THEN FloorDiv(d, min_ratio)
               ELSE FloorDiv(q.n, q.d)
    IN  IF cnt < 1 THEN 1 ELSE cnt

\* line 248: max(1, int(np.round(|edge[i+1]-edge[i]| / max(0.01, interval*multiple))))
\* for interval >= 0.01 and multiple >= 0.01; max(0.01, nan) is 0.01
numpnt_of(e0, e1, interval, multiple) ==
    LET d == Abs(e1 - e0)
        \* interval * multiple
        prod == FracMul(Frac(interval, Milli), Frac(multiple.n, multiple.d))
        small == multiple.k = "nan"
                 \/ (multiple.k = "fin" /\ prod.n * Milli < min_ratio * prod.d)
        q == FracMul(Frac(d, Milli), Frac(prod.d, prod.n))
        cnt == IF multiple.k = "inf" THEN 0
               ELSE IF small THEN RoundHalfEven(d, min_ratio)
               ELSE RoundHalfEven(q.n, q.d)
    IN  IF cnt < 1 THEN 1 ELSE cnt

\* samples that start one step late
linspace_late(start, stop, num, endpoint) ==
    LET div == IF endpoint THEN num - 1 ELSE num
    IN  [k \in 1..num |-> [n |-> start * div + k * (stop - start),
                           d |-> div]]

\* np.linspace(start, stop, num, endpoint): num evenly spaced samples as
\* fractions n/d of thousandths; the stop value only with endpoint
linspace(start, stop, num, endpoint) ==
    LET div == IF endpoint THEN num - 1 ELSE num
    IN  [k \in 1..num |-> [n |-> start * div + (k - 1) * (stop - start),
                           d |-> div]]

\* np.around(x, 1) of the fraction n/d of thousandths: a multiple of 0.1
around1(n, d) == 100 * RoundHalfEven(n, 100 * d)

\* np.around(x, 2): the nearest multiple of 0.01
round_to_001(x) == 10 * RoundHalfEven(x.n, 10 * x.d)

\* line 250: np.around(x * 2, 1) / 2, the nearest multiple of 0.05
round_to_005(x) == around1(2 * x.n, x.d) \div 2

\* the points of zone i with its right end point, in every zone
zone_energies_closed(e0, e1, numpnt, at_end) ==
    LET pts == linspace(e0, e1, numpnt + 1, TRUE)
    IN  [k \in DOMAIN pts |-> round_to_005(pts[k])]

\* the points of zone i with the end point of the last zone left out
zone_energies_open(e0, e1, numpnt, at_end) ==
    LET pts == linspace(e0, e1, numpnt, FALSE)
    IN  [k \in DOMAIN pts |-> round_to_005(pts[k])]

\* line 250: the rounded points of zone i
zone_energies(e0, e1, numpnt, at_end) ==
    LET pts == linspace(e0, e1, numpnt + (IF at_end THEN 1 ELSE 0), at_end)
    IN  [k \in DOMAIN pts |-> round_to_005(pts[k])]

\* lines 243-250: the second loop; it raises at the first zone whose weight
\* or whose scale is below 0.01
RECURSIVE second_pass(_, _, _, _, _, _)
second_pass(edge, ratios, multiple, singleinput, i, energies) ==
    IF i > Len(ratios) THEN [err |-> "", energies |-> energies]
    ELSE IF ratios[i].m < min_ratio
    THEN [err |-> "RatioValueError", energies |-> <<>>]
    ELSE IF multiple_too_small(multiple)
    THEN [err |-> "RatioValueError", energies |-> <<>>]
    ELSE LET numpnt == numpnt_of(edge[i].m, edge[i + 1].m, ratios[i].m,
                                 multiple)
             at_end == i = Len(ratios) /\ ~singleinput
         IN  second_pass(edge, ratios, multiple, singleinput, i + 1,
                 energies \o zone_energies(edge[i].m, edge[i + 1].m, numpnt,
                                           at_end))

\* lines 234-258, for resolved edge, frames and ratios
energies_of(edge, frames, ratios, singleinput) ==
    LET counts == first_pass(edge, ratios)
        err1 == first_pass_error(counts, numpnts_dtype(ratios))
        steps == sum_numpnts(counts)
        multiple == scale_multiple(steps, frames)
        out == second_pass(edge, ratios, multiple, singleinput, 1, <<>>)
    IN  IF err1 # "" THEN Raised(err1)
        \* sum(()) is the Python int 0, and 0 / 0 raises
        ELSE IF ratios = <<>> /\ frames = 0 THEN Raised("ZeroDivisionError")
        ELSE IF out.err # "" THEN Raised(out.err)
        ELSE Returned(NdArray("float", out.energies), <<>>, NoTime)

\* lines 118-258
get_energies(edge_arg, frames_arg, ratios_arg) ==
    LET re == energies_resolve_edge(edge_arg)
        edge == re.edge
        frames == resolve_frames(frames_arg)
        ratios == energies_resolve_ratios(ratios_arg, re.edge_input, edge)
    IN  IF ~IsSequence(edge) THEN Raised("EdgeResolutionError")
        ELSE IF ~IsNumber(frames) THEN Raised("ScalarResolutionError")
        ELSE IF ratios.ty = "keyerror" THEN Raised("KeyError")
        \* len() of a bare number
        ELSE IF IsNumber(ratios) THEN Raised("TypeError")
        ELSE IF Len(ratios.v) + 1 # Len(edge.v) THEN Raised("RatioCountError")
        ELSE energies_of(edge.v, frames.m, ratios.v, re.singleinput)

\* ------------------------------------------------------------------------
\* get_nexafs_scan_params
\* ------------------------------------------------------------------------
nexafs_edges ==
    [carbon    |-> Ints(<<250, 282, 297, 350>>),
     oxygen    |-> Ints(<<500, 525, 540, 560>>),
     fluorine  |-> Ints(<<650, 680, 700, 740>>),
     aluminium |-> Ints(<<1500, 1560, 1580, 1600>>),
     nitrogen  |-> Ints(<<370, 397, 407, 440>>),
     zincl     |-> Ints(<<1000, 1015, 1035, 1085>>),
     sulfurl   |-> Ints(<<150, 160, 170, 200>>),
     calcium   |-> Ints(<<320, 345, 355, 380>>)]

ratios_table ==
    ("default 4" :> Ints(<<5, 1, 5>>)) @@
    ("default 5" :> Ints(<<5, 1, 2, 5>>)) @@
    ("default 6" :> Ints(<<5, 2, 1, 2, 5>>)) @@
    ("default 2" :> Ints(<<1>>)) @@
    ("default 3" :> Ints(<<5, 1>>))

\* speeds in thousandths of eV/s
speed_table ==
    ("normal" :> PyFloat(200)) @@ ("" :> PyFloat(200)) @@
    ("quick" :> PyFloat(400)) @@ ("fast" :> PyFloat(500)) @@
    ("very fast" :> PyInt(1)) @@ ("slow" :> PyFloat(100)) @@
    ("very slow" :> PyFloat(50))

\* the look-ups made with the spelling of the caller, not lower-cased
nexafs_resolve_edge_case_sensitive(edge) ==
    LET isalias == edge.ty = "str" /\ edge.s \in DOMAIN edge_names
        e1 == IF isalias THEN PyStr(edge_names[edge.s]) ELSE edge
        edge_input == IF isalias THEN PyStr(Lower(e1.s)) ELSE edge
        e2 == IF edge.ty = "str" /\ e1.s \in DOMAIN nexafs_edges
              THEN PyTuple(nexafs_edges[e1.s]) ELSE e1
    IN  [edge |-> e2, edge_input |-> edge_input]

\* lines 73-82
nexafs_resolve_edge(edge) ==
    LET isalias == edge.ty = "str" /\ Lower(edge.s) \in DOMAIN edge_names
        e1 == IF isalias THEN PyStr(edge_names[Lower(edge.s)]) ELSE edge
        edge_input == IF isalias THEN PyStr(Lower(e1.s)) ELSE edge
        e2 == IF edge.ty = "str" /\ Lower(e1.s) \in DOMAIN nexafs_edges
              THEN PyTuple(nexafs_edges[Lower(e1.s)]) ELSE e1
    IN  [edge |-> e2, edge_input |-> edge_input]

\* lines 83-87
resolve_speed(speed) ==
    IF speed.ty = "str" /\ Lower(speed.s) \in DOMAIN speed_table
    THEN speed_table[Lower(speed.s)] ELSE speed

\* lines 88-97: ty "keyerror" stands for the KeyError of ratios_table[ratios]
nexafs_resolve_ratios(ratios, edge_input, edge) ==
    IF ratios.ty = "none" \/ (ratios.ty = "str" /\ ratios.s = "")
    THEN IF StrLower(edge_input) \in DOMAIN ratios_table
         THEN PyTuple(ratios_table[Lower(edge_input.s)])
         ELSE IF DefaultKey(Len(edge.v)) \in DOMAIN ratios_table
         THEN PyTuple(ratios_table[DefaultKey(Len(edge.v))])
         ELSE PyTuple([i \in 1..(Len(edge.v) - 1) |-> PyInt(1)])
    ELSE IF ~IsSequence(ratios)
         THEN IF ratios.ty = "str" /\ ratios.s \in DOMAIN ratios_table
              THEN PyTuple(ratios_table[ratios.s])
              ELSE Val("keyerror", "", 0, <<>>, <<>>)
         ELSE ratios

\* float(ratio) * float(speed), in millionths of eV/s (line 106)
zone_rate(ratio, speed) == ratio.m * speed.m

\* the zone time without the absolute value
zone_time_signed(e0, e1, rate) == Frac((e1 - e0) * Milli, rate)

\* abs(edge[i+1] - edge[i]) / (float(ratio) * float(speed)), in seconds
\* (line 107); the rate is not zero
zone_time(e0, e1, rate) == Frac(Abs(e1 - e0) * Milli, rate)

\* lines 105-107: the loop; a zone whose rate is zero raises
\* ZeroDivisionError
RECURSIVE nexafs_loop(_, _, _, _, _, _)
nexafs_loop(edge, ratios, speed, i, scan_params, time) ==
    IF i > Len(ratios)
    THEN [err |-> "", scan_params |-> scan_params, time |-> time]
    ELSE LET rate == zone_rate(ratios[i], speed)
         IN  IF rate = 0
             THEN [err |-> "ZeroDivisionError", scan_params |-> <<>>,
                   time |-> NoTime]
             ELSE nexafs_loop(edge, ratios, speed, i + 1,
                     Append(scan_params,
                            [start |-> edge[i], stop |-> edge[i + 1],
                             rate  |-> rate]),
                     FracAdd(time,
                             zone_time(edge[i].m, edge[i + 1].m, rate)))

\* lines 10-115
get_nexafs_scan_params(edge_arg, speed_arg, ratios_arg) ==
    LET re == nexafs_resolve_edge(edge_arg)
        edge == re.edge
        speed == resolve_speed(speed_arg)
        ratios == nexafs_resolve_ratios(ratios_arg, re.edge_input, edge)
        out == nexafs_loop(edge.v, ratios.v, speed, 1, <<>>, NoTime)
    IN  IF ~IsSequence(edge) THEN Raised("EdgeResolutionError")
        ELSE IF ~IsNumber(speed) THEN Raised("ScalarResolutionError")
        ELSE IF ratios.ty = "keyerror" THEN Raised("KeyError")
        ELSE IF Len(ratios.v) + 1 # Len(edge.v) THEN Raised("RatioCountError")
        ELSE IF out.err # "" THEN Raised(out.err)
        ELSE Returned(PyNone, out.scan_params, out.time)

\* ------------------------------------------------------------------------
\* construct_exposure_times
\* ------------------------------------------------------------------------
min_repeats == 1

max_repeats == 100

\* seconds of overhead per point (line 305)
point_overhead == 4

\* seconds between repeated exposures (line 304)
repeat_overhead == 1

IsNdArray(x) == x.ty \in {"ndarray_int", "ndarray_float"}

\* the value numpy stores into an array of dtype: an integer array
\* truncates a float towards zero
store_as(dtype, m) == IF dtype = "ndarray_int" THEN TruncToInt(m) * Milli ELSE m

\* lines 289-299: does the energy e pass the test (name, t1[, t2])?
\* "none" when the name is not recognised
test_matches(test, e) ==
    LET name == test[1].s
    IN  CASE name \in {"less_than", "less than"} ->
                IF e < test[2].m THEN "yes" ELSE "no"
          [] name \in {"greater_than", "greater than"} ->
                IF e > test[2].m THEN "yes" ELSE "no"
          [] name = "between" ->
                IF test[2].m < e /\ e < test[3].m THEN "yes" ELSE "no"
          [] name = "equals" ->
                IF test[2].m = e THEN "yes" ELSE "no"
          [] OTHER -> "none"

\* lines 288-302: the rules (exposure_time[1::2] zipped with
\* exposure_time[2::2]) applied in order from rule j on
RECURSIVE apply_rules(_, _, _, _, _)
apply_rules(times, energies, dtype, rules, j) ==
    IF 2 * j + 1 > Len(rules) THEN [err |-> "", times |-> times]
    ELSE LET test  == rules[2 * j].v
             value == rules[2 * j + 1].m
         IN  IF test_matches(test, 0) = "none"
             THEN [err |-> "ExposureRuleError", times |-> <<>>]
             ELSE apply_rules(
                     [i \in DOMAIN times |->
                        IF test_matches(test, energies[i]) = "yes"
                        THEN store_as(dtype, value) ELSE times[i]],
                     energies, dtype, rules, j + 1)

\* lines 281-302: the array times
exposure_times(energies, exposure_time) ==
    LET et == IF exposure_time.ty = "str" /\ exposure_time.s = ""
              THEN PyInt(1) ELSE exposure_time
        fill(m) == [i \in DOMAIN energies.a |-> store_as(energies.ty, m)]
    IN  IF IsNumber(et) THEN [err |-> "", times |-> fill(et.m)]
        ELSE IF et.ty = "list"
        THEN apply_rules(fill(et.v[1].m), energies.a, energies.ty, et.v, 1)
        ELSE [err |-> "", times |-> energies.a]

\* the total with the overhead between repeats counted once per repeat, not
\* once per point and repeat
total_time_overhead_once(times, repeats) ==
    SumSeq([i \in DOMAIN times |-> times[i] * repeats])
    + repeat_overhead * (repeats - 1) * Milli
    + point_overhead * Len(times) * Milli

\* lines 303-305: the estimated seconds, in thousandths
total_time(times, repeats) ==
    SumSeq([i \in DOMAIN times |->
              times[i] * repeats + repeat_overhead * (repeats - 1) * Milli])
    + point_overhead * Len(times) * Milli

\* the range check with both limits excluded
repeats_out_of_range_strict(repeats) ==
    min_repeats >= repeats \/ max_repeats <= repeats

\* line 277: 1 > int(repeats) or 100 < int(repeats); repeats is an integer
repeats_out_of_range(repeats) == min_repeats > repeats \/ max_repeats < repeats

\* lines 261-308
construct_exposure_times(energies, exposure_time, repeats) ==
    LET out == exposure_times(energies, exposure_time)
    IN  IF repeats_out_of_range(repeats)
        THEN Raised("RepeatRangeError")
        ELSE IF ~IsNdArray(energies) THEN Raised("EnergyListTypeError")
        ELSE IF out.err # "" THEN Raised(out.err)
        ELSE Returned(Val(energies.ty, "", 0, <<>>, out.times), <<>>,
                      [n |-> total_time(out.times, repeats), d |-> Milli])

\* ------------------------------------------------------------------------
\* The calls of the model
\* ------------------------------------------------------------------------
\* most thresholds of an explicit edge
MaxThresholds == 3

\* most energies of an array given to construct_exposure_times
MaxEnergies == 2

\* most (test, value) rules of an exposure list
MaxRules == 2

\* thresholds of explicit edges: 250, 250.52 (off the 0.05 grid) and 252
Thresholds == {PyInt(250), PyFloat(250520), PyInt(252)}

\* zone weights: 1, 0, 0.2, 0.005, 0.0 and -1
Weights ==
    {PyInt(1), PyInt(0), PyFloat(200), PyFloat(5), PyFloat(0), PyInt(-1)}

SeqsUpTo(S, lo, hi) == UNION {[1..n -> S] : n \in lo..hi}

EdgeTuples == {PyTuple(v) : v \in SeqsUpTo(Thresholds, 1, MaxThresholds)}

\* the fifteen keys of edge_names
AliasKeys ==
    {"c", "carbonk", "ck", "n", "nitrogenk", "nk", "f", "fluorinek", "fk",
     "o", "oxygenk", "ok", "ca", "calciumk", "cak"}

\* alias keys and edge names in several spellings, two keys of the ratio
\* tables and a name of no table
EdgeNames ==
    {PyStr(s) : s \in AliasKeys \cup
        {"carbon", "Carbon", "CARBON", "C", "CK", "Ck", "CarbonK", "N", "O",
         "Ca", "nitrogen", "Nitrogen", "fluorine", "Fluorine", "oxygen",
         "Oxygen", "calcium", "Calcium", "aluminium", "zincl", "sulfurl",
         "xenon", "carbon nonaromatic", "default 4"}}

\* explicit edges given as lists
EdgeLists ==
    {PyList(<<PyInt(250), PyInt(252)>>),
     PyList(<<PyInt(250), PyFloat(250520), PyInt(252)>>)}

\* an explicit edge of seven thresholds, one more than the length-keyed
\* presets reach
LongEdge == PyTuple(Ints(<<250, 252, 254, 256, 258, 260, 262>>))

EdgeScalars == {PyInt(270), PyFloat(270020)}

\* ratio inputs of every shape: absent, empty, table keys, an unknown key,
\* bare numbers, and tuples and lists of k ones
RatioShapes ==
    {PyNone, PyStr(""), PyStr("carbon"), PyStr("default 3"), PyStr("bogus"),
     PyInt(5), PyFloat(500)}
    \cup {PyTuple([i \in 1..k |-> PyInt(1)]) : k \in 0..MaxThresholds}
    \cup {PyList([i \in 1..k |-> PyInt(1)]) : k \in 1..2}

\* every tuple of n weights
RatioTuples(n) == {PyTuple(v) : v \in [1..n -> Weights]}

FrameInputs ==
    {PyInt(112), PyInt(3), PyInt(0), PyInt(-5), PyStr("Short"),
     PyStr("bogus"), PyNaN}

FrameNumbers == {PyInt(112), PyInt(3), PyInt(0), PyInt(-5)}

SpeedInputs ==
    {PyFloat(200), PyInt(1), PyInt(0), PyFloat(-500), PyStr("Fast"),
     PyStr("bogus")}

SpeedNumbers == {PyFloat(200), PyInt(0), PyFloat(-500)}

\* a call with its named arguments; quiet has its default False and no
\* further keyword argument is passed
Call(fn, edge, frames, speed, ratios, energies, exposure_time, repeats) ==
    [fn |-> fn, edge |-> edge, frames |-> frames, speed |-> speed,
     ratios |-> ratios, energies |-> energies,
     exposure_time |-> exposure_time, repeats |-> repeats,
     quiet |-> FALSE, kwargs |-> <<>>]

\* the call c made with quiet = q
Quiet(c, q) == [c EXCEPT !.quiet = q]

\* the call c made with the further keyword arguments kw, a sequence of
\* <<name, value>> pairs
WithKwargs(c, kw) == [c EXCEPT !.kwargs = kw]

\* tables a caller passes by keyword: a carbon edge of two thresholds and
\* a ratio preset of three ones for the edges of four thresholds
SuppliedEdges == <<"edges", [carbon |-> Ints(<<250, 252>>)]>>

SuppliedRatios == <<"ratios_table", "default 4" :> Ints(<<1, 1, 1>>)>>

KwargInputs == {<<SuppliedEdges>>, <<SuppliedRatios>>}

EnergiesCall(edge, frames, ratios) ==
    Call("get_energies", edge, frames, PyNone, ratios, PyNone, PyNone, 0)

NexafsCall(edge, speed, ratios) ==
    Call("get_nexafs_scan_params", edge, PyNone, speed, ratios, PyNone,
         PyNone, 0)

ExposureCall(energies, exposure_time, repeats) ==
    Call("construct_exposure_times", PyNone, PyNone, PyNone, PyNone,
         energies, exposure_time, repeats)

\* the calls of get_energies
EnergiesCalled ==
    \/ \E e \in EdgeNames \cup EdgeScalars \cup EdgeLists \cup {LongEdge},
          f \in FrameInputs, r \in RatioShapes, q \in BOOLEAN :
          call = Quiet(EnergiesCall(e, f, r), q)
    \/ \E e \in EdgeScalars, f \in FrameNumbers, r \in RatioTuples(1),
          q \in BOOLEAN :
          call = Quiet(EnergiesCall(e, f, r), q)
    \/ \E e \in EdgeTuples, f \in FrameNumbers, q \in BOOLEAN :
          \E r \in RatioShapes \cup RatioTuples(Len(e.v) - 1) :
             call = Quiet(EnergiesCall(e, f, r), q)
    \/ \E e \in {PyStr("carbon"), PyStr("c"), PyStr("oxygen")},
          f \in {PyInt(112), PyInt(3)}, kw \in KwargInputs :
          call = WithKwargs(EnergiesCall(e, f, PyNone), kw)

\* the calls of get_nexafs_scan_params
NexafsCalled ==
    \/ \E e \in EdgeNames \cup EdgeScalars \cup EdgeLists \cup {LongEdge},
          s \in SpeedInputs, r \in RatioShapes, q \in BOOLEAN :
          call = Quiet(NexafsCall(e, s, r), q)
    \/ \E e \in EdgeTuples, s \in SpeedNumbers, q \in BOOLEAN :
          \E r \in RatioShapes \cup RatioTuples(Len(e.v) - 1) :
             call = Quiet(NexafsCall(e, s, r), q)
    \/ \E e \in {PyStr("carbon"), PyStr("c"), PyStr("oxygen")},
          s \in {PyFloat(200), PyStr("Fast")}, kw \in KwargInputs :
          call = WithKwargs(NexafsCall(e, s, PyNone), kw)

\* energies 250, 270, 285.5 and 300 eV
EnergyValues == {250000, 270000, 285500, 300000}

WholeEnergyValues == {250000, 270000, 300000}

EnergyInputs ==
    {NdArray("float", a) : a \in SeqsUpTo(EnergyValues, 0, MaxEnergies)}
    \cup {NdArray("int", a) : a \in SeqsUpTo(WholeEnergyValues, 0, MaxEnergies)}
    \cup {PyList(<<PyInt(250), PyInt(270)>>),
          PyList(<<PyFloat(285500)>>),
          PyTuple(<<PyInt(250), PyInt(270)>>),
          PyInt(250), PyStr("250"), PyNone}

\* a rule is a (test, value) pair; every rule has a value of its own
Rule(test, value) == <<PyTuple(test), value>>

Rules ==
    {Rule(<<PyStr("less_than"), PyInt(270)>>, PyInt(10)),
     Rule(<<PyStr("greater_than"), PyInt(270)>>, PyFloat(100)),
     Rule(<<PyStr("between"), PyInt(250), PyFloat(285500)>>, PyFloat(2500)),
     Rule(<<PyStr("equals"), PyInt(270)>>, PyInt(5)),
     Rule(<<PyStr("less than"), PyFloat(285500)>>, PyInt(3)),
     Rule(<<PyStr("bogus"), PyInt(270)>>, PyInt(7))}

ExposureDefaults == {PyInt(1), PyFloat(500)}

RECURSIVE Flatten(_)
Flatten(rules) ==
    IF rules = <<>> THEN <<>> ELSE Head(rules) \o Flatten(Tail(rules))

\* [default, test, value, test, value, ...]
ExposureLists ==
    {PyList(<<d>> \o Flatten(rs)) :
        d \in ExposureDefaults, rs \in SeqsUpTo(Rules, 0, MaxRules)}

\* exposures of 896 and 897 seconds: two points of 896 seconds take the
\* 1800 seconds of the warning threshold, two of 897 seconds two more
LongExposures ==
    {PyInt(896), PyInt(897),
     PyList(<<PyInt(897), PyTuple(<<PyStr("less_than"), PyInt(270)>>),
              PyInt(896)>>)}

ExposureInputs ==
    ExposureLists
    \cup ExposureDefaults
    \cup LongExposures
    \cup {PyStr(""), PyStr("5"),
          PyTuple(<<PyInt(1), PyTuple(<<PyStr("less_than"), PyInt(270)>>),
                    PyInt(10)>>),
          \* a test with no value after it
          PyList(<<PyInt(1), PyTuple(<<PyStr("less_than"), PyInt(270)>>)>>)}

RepeatInputs == {-1, 0, 1, 2, 100, 101}

\* the calls of construct_exposure_times
ExposureCalled ==
    \/ \E e \in EnergyInputs, x \in ExposureInputs, r \in {1, 3},
          q \in BOOLEAN :
          call = Quiet(ExposureCall(e, x, r), q)
    \/ \E e \in {NdArray("float", <<250000, 270000>>),
                  PyList(<<PyInt(250), PyInt(270)>>)},
          x \in {PyInt(1), PyStr(""),
                 PyList(<<PyInt(1),
                          PyTuple(<<PyStr("bogus"), PyInt(270)>>), PyInt(7)>>)},
          r \in RepeatInputs :
          call = ExposureCall(e, x, r)

\* ------------------------------------------------------------------------
\* The state machine: a call is made and the function runs to its return
\* or to the exception it raises
\* ------------------------------------------------------------------------
Init ==
    /\ EnergiesCalled \/ NexafsCalled \/ ExposureCalled
    /\ pc = "called"
    /\ ret = Pending
    /\ diag = NoDiag

GetEnergies ==
    /\ pc = "called"
    /\ call.fn = "get_energies"
    /\ ret' = get_energies(call.edge, call.frames, call.ratios)
    /\ diag' = energies_diag(ret', call.quiet)
    /\ pc' = "done"
    /\ UNCHANGED call

GetNexafsScanParams ==
    /\ pc = "called"
    /\ call.fn = "get_nexafs_scan_params"
    /\ ret' = get_nexafs_scan_params(call.edge, call.speed, call.ratios)
    /\ diag' = nexafs_diag(ret', call.quiet)
    /\ pc' = "done"
    /\ UNCHANGED call

ConstructExposureTimes ==
    /\ pc = "called"
    /\ call.fn = "construct_exposure_times"
    /\ ret' = construct_exposure_times(call.energies, call.exposure_time,
                                       call.repeats)
    /\ diag' = exposure_diag(ret', call.quiet)
    /\ pc' = "done"
    /\ UNCHANGED call

Next == GetEnergies \/ GetNexafsScanParams \/ ConstructExposureTimes

Spec == Init /\ [][Next]_vars

\* ------------------------------------------------------------------------
\* Properties
\* ------------------------------------------------------------------------
Done(fn) == pc = "done" /\ call.fn = fn

\* x rounded to the nearest multiple of 0.05 (50 thousandths)
Nearest005(m) == 50 * RoundHalfEven(m, 50)

\* the edge, the scalar and the ratios of the current call after resolution
ResolvedEdge ==
    IF call.fn = "get_energies" THEN energies_resolve_edge(call.edge).edge
    ELSE nexafs_resolve_edge(call.edge).edge

ResolvedScalar ==
    IF call.fn = "get_energies" THEN resolve_frames(call.frames)
    ELSE resolve_speed(call.speed)

ResolvedRatios ==
    IF call.fn = "get_energies"
    THEN energies_resolve_ratios(call.ratios,
             energies_resolve_edge(call.edge).edge_input, ResolvedEdge)
    ELSE nexafs_resolve_ratios(call.ratios,
             nexafs_resolve_edge(call.edge).edge_input, ResolvedEdge)

RatiosDefaulted == call.ratios = PyNone \/ call.ratios = PyStr("")

\* C1: get_energies with a bare number as edge, the ratios left to their
\* default and a positive frame target returns the one-element list holding
\* that number rounded to the nearest 0.05.
C1_ScalarEdgeGivesOneRoundedValue ==
    (/\ Done("get_energies")
     /\ IsNumber(call.edge)
     /\ RatiosDefaulted
     /\ IsNumber(ResolvedScalar) /\ ResolvedScalar.m > 0)
    => /\ ret.status = "returned"
       /\ ret.val.a = <<Nearest005(call.edge.m)>>

\* the number of weights of a ratio input the planner's type check lets
\* through: the length of a sequence, one for a bare number
RatioCount(r) == IF IsSequence(r) THEN Len(r.v) ELSE 1

RatiosPassTypeCheck ==
    \/ IsSequence(ResolvedRatios)
    \/ call.fn = "get_energies" /\ IsNumber(ResolvedRatios)

\* C2: in both planners a call whose ratios do not count len(edge) - 1
\* weights ends in RatioCountError, whatever shape the ratio input has, and
\* only a call with len(edge) - 1 weights returns.
C2_EveryMismatchIsRatioCountError ==
    (/\ pc = "done"
     /\ call.fn \in {"get_energies", "get_nexafs_scan_params"}
     /\ IsSequence(ResolvedEdge)
     /\ IsNumber(ResolvedScalar)
     /\ RatiosPassTypeCheck)
    => /\ RatioCount(ResolvedRatios) # Len(ResolvedEdge.v) - 1
            => ret.status = "raised" /\ ret.err = "RatioCountError"
       /\ ret.status = "returned"
            => RatioCount(ResolvedRatios) = Len(ResolvedEdge.v) - 1

\* sum over the zones i..n of |edge[i+1] - edge[i]| / (ratio[i] * speed),
\* in seconds
RECURSIVE ClosedFormTime(_, _, _, _)
ClosedFormTime(edge, ratios, speed, i) ==
    IF i > Len(ratios) THEN [n |-> 0, d |-> 1]
    ELSE FracAdd(Frac(Abs(edge[i + 1].m - edge[i].m) * Milli,
                      ratios[i].m * speed.m),
                 ClosedFormTime(edge, ratios, speed, i + 1))

\* C3: a successful get_nexafs_scan_params returns one triple
\* (edge[i], edge[i+1], ratio[i] * speed) per zone, in zone order, and a
\* total duration equal to the sum of |edge[i+1] - edge[i]| / (ratio[i] * speed).
C3_SpeedScanTriplesAndDuration ==
    (Done("get_nexafs_scan_params") /\ ret.status = "returned")
    => LET edge == ResolvedEdge.v
           ratios == ResolvedRatios.v
           speed == ResolvedScalar
       IN  /\ Len(ret.params) = Len(edge) - 1
           /\ \A i \in DOMAIN ret.params :
                 ret.params[i] = [start |-> edge[i], stop |-> edge[i + 1],
                                  rate |-> ratios[i].m * speed.m]
           /\ ret.time = ClosedFormTime(edge, ratios, speed, 1)

\* a two-zone speed scan with a descending zone was planned
C3_Witness ==
    /\ Done("get_nexafs_scan_params") /\ ret.status = "returned"
    /\ Len(ret.params) = 2
    /\ ret.params[2].stop.m < ret.params[2].start.m
    /\ ret.time.n > 0

\* C4: a successful construct_exposure_times over N energies with repeat
\* count r returns the total sum_i(exposure_i * r) + (r - 1) * N + 4 * N.
C4_TotalDurationFormula ==
    (Done("construct_exposure_times") /\ ret.status = "returned")
    => LET times == ret.val.a
           N == Len(times)
           r == call.repeats
       IN  /\ ret.time.d = Milli
           /\ ret.time.n = SumSeq([i \in DOMAIN times |-> times[i] * r])
                            + (r - 1) * N * Milli + 4 * N * Milli

\* two points with different exposures, each taken three times
C4_Witness ==
    /\ Done("construct_exposure_times") /\ ret.status = "returned"
    /\ call.repeats = 3
    /\ Len(ret.val.a) = 2
    /\ ret.val.a[1] # ret.val.a[2]

\* the test (name, t1[, t2]) of an exposure rule as the specification reads
\* it: less_than e < t, greater_than e > t, between t1 < e < t2, equals e = t
RuleHolds(test, e) ==
    CASE test[1].s = "less_than"    -> e < test[2].m
      [] test[1].s = "greater_than" -> e > test[2].m
      [] test[1].s = "between"      -> test[2].m < e /\ e < test[3].m
      [] test[1].s = "equals"       -> e = test[2].m
      [] OTHER                      -> FALSE

\* the exposure list of the call is [d, (name, t...), v] with one of the
\* four predicates
SingleRuleCall ==
    /\ call.exposure_time.ty = "list"
    /\ Len(call.exposure_time.v) = 3
    /\ call.exposure_time.v[2].v[1].s
          \in {"less_than", "greater_than", "between", "equals"}

\* C5: with the rule list [d, (pred, t...), v] construct_exposure_times
\* returns, in the order of the energies, v for every energy that satisfies
\* the predicate and d for every other one; both bounds of between are
\* excluded, and an energy equal to the threshold of less_than keeps d.
C5_SingleRuleExposures ==
    (Done("construct_exposure_times") /\ ret.status = "returned"
     /\ SingleRuleCall)
    => LET d == call.exposure_time.v[1].m
           test == call.exposure_time.v[2].v
           v == call.exposure_time.v[3].m
           e == call.energies.a
       IN  /\ Len(ret.val.a) = Len(e)
           /\ \A i \in DOMAIN e :
                 ret.val.a[i] = IF RuleHolds(test, e[i]) THEN v ELSE d

\* C6: construct_exposure_times raises RepeatRangeError for every repeat
\* count below 1 or above 100 and for no repeat count in 1..100.
C6_RepeatRange ==
    Done("construct_exposure_times")
    => /\ (call.repeats < 1 \/ call.repeats > 100)
            => ret.status = "raised" /\ ret.err = "RepeatRangeError"
       /\ call.repeats \in 1..100 => ret.err # "RepeatRangeError"

\* 101 repeats were asked for and refused
C6_Witness ==
    /\ Done("construct_exposure_times")
    /\ call.repeats = 101
    /\ ret.status = "raised" /\ ret.err = "RepeatRangeError"

CarbonThresholds == {250, 270, 282, 287, 292, 305, 350}

CarbonCall ==
    /\ Done("get_energies")
    /\ call.edge = PyStr("carbon")
    /\ call.frames = PyInt(112)
    /\ call.ratios = PyNone

\* C7: get_energies("carbon", 112) with the built-in carbon edge and ratios
\* returns between 90 and 134 energies, among them each of the seven carbon
\* thresholds.
C7_CarbonPreset ==
    CarbonCall
    => /\ ret.status = "returned"
       /\ Len(ret.val.a) \in 90..134
       /\ \A th \in CarbonThresholds :
             \E i \in DOMAIN ret.val.a : ret.val.a[i] = th * Milli

\* the carbon scan was generated, with 114 energies
C7_Witness == CarbonCall /\ ret.status = "returned" /\ Len(ret.val.a) = 114

\* s[i..] is a subsequence of t[j..]: s[i] is matched at its first
\* occurrence from j on
RECURSIVE IsSubseqFrom(_, _, _, _)
IsSubseqFrom(s, t, i, j) ==
    IF i > Len(s) THEN TRUE
    ELSE LET hits == {k \in j..Len(t) : t[k] = s[i]}
             first == CHOOSE k \in hits : \A l \in hits : k <= l
         IN  hits # {} /\ IsSubseqFrom(s, t, i + 1, first + 1)

MultiZoneReturn ==
    /\ Done("get_energies") /\ ret.status = "returned"
    /\ ~IsNumber(call.edge)
    /\ Len(ResolvedEdge.v) >= 2

\* C8: in the list of a successful multi-zone get_energies every threshold
\* of the resolved edge, rounded to the nearest 0.05, occurs, and the
\* thresholds occur in the order of the edge.
C8_ThresholdsInOrder ==
    MultiZoneReturn
    => LET edge == ResolvedEdge.v
           rounded == [i \in DOMAIN edge |-> Nearest005(edge[i].m)]
       IN  IsSubseqFrom(rounded, ret.val.a, 1, 1)

\* a two-zone list with interior points whose middle threshold, 250.52, is
\* off the 0.05 grid
C8_Witness ==
    /\ MultiZoneReturn
    /\ Len(ResolvedEdge.v) = 3
    /\ ResolvedEdge.v[2] = PyFloat(250520)
    /\ Len(ret.val.a) > 5

\* C9: every value of every list get_energies returns is a multiple of
\* 0.05 (50 thousandths).
C9_MultiplesOf005 ==
    (Done("get_energies") /\ ret.status = "returned")
    => \A i \in DOMAIN ret.val.a : ret.val.a[i] % 50 = 0

\* a returned list that starts at 250.52 and holds interior points
C9_Witness ==
    /\ Done("get_energies") /\ ret.status = "returned"
    /\ ~IsNumber(call.edge)
    /\ ResolvedEdge.v[1] = PyFloat(250520)
    /\ Len(ret.val.a) > 4

\* the sum S of the first pass, for weights that are not zero
FirstPassSum(edge, ratios) ==
    SumSeq([i \in DOMAIN ratios |->
               RoundHalfEven(Abs(edge[i + 1].m - edge[i].m), ratios[i].m)])

\* S / frames < 0.01
ScaleBelowMin(edge, ratios, frames) ==
    /\ frames # 0
    /\ LET q == Frac(FirstPassSum(edge, ratios) * Milli, frames)
       IN  100 * q.n < q.d

\* C10: get_energies raises RatioValueError, and returns no list, whenever a
\* zone weight is below 0.01 (zero and negative weights too) or the scale
\* S / frames is below 0.01.
C10_BadWeightOrScaleIsRatioValueError ==
    (/\ Done("get_energies")
     /\ IsSequence(ResolvedEdge)
     /\ IsNumber(ResolvedScalar)
     /\ IsSequence(ResolvedRatios)
     /\ Len(ResolvedRatios.v) + 1 = Len(ResolvedEdge.v)
     /\ Len(ResolvedRatios.v) >= 1
     /\ \/ \E i \in DOMAIN ResolvedRatios.v : ResolvedRatios.v[i].m < 10
        \/ ScaleBelowMin(ResolvedEdge.v, ResolvedRatios.v, ResolvedScalar.m))
    => ret.status = "raised" /\ ret.err = "RatioValueError"

\* x, the fraction n/d of thousandths, rounded to the nearest multiple of
\* 0.05
Nearest005Frac(n, d) == 50 * RoundHalfEven(n, 50 * d)

\* count_i = max(1, round(|E[i+1]-E[i]| / max(0.01, R[i] * scale))) with
\* scale = S / frame_target and S the sum of round(|E[i+1]-E[i]| / R[i]);
\* the frame target is not zero
SpecCount(edge, ratios, frames, i) ==
    LET scale == Frac(FirstPassSum(edge, ratios) * Milli, frames)
        w == FracMul(Frac(ratios[i].m, Milli), scale)
        wmax == IF 100 * w.n < w.d THEN Frac(1, 100) ELSE w
        q == FracMul(Frac(Abs(edge[i + 1].m - edge[i].m), Milli),
                     Frac(wmax.d, wmax.n))
        c == RoundHalfEven(q.n, q.d)
    IN  IF c < 1 THEN 1 ELSE c

\* C11: the list of a successful multi-zone get_energies with a frame
\* target other than zero (scale = S / frames is then a number) holds, zone
\* after zone, count_i evenly spaced points that start at E[i] (rounded to
\* 0.05), count_i being the count of the second pass computed from S and
\* the scale, and then the last threshold: 1 + sum_i count_i values.
C11_ExactZoneCounts ==
    (MultiZoneReturn /\ ResolvedScalar.m # 0)
    => LET edge == ResolvedEdge.v
           ratios == ResolvedRatios.v
           n == Len(ratios)
           count == [i \in 1..n |->
                        SpecCount(edge, ratios, ResolvedScalar.m, i)]
           offset(i) == SumSeq(SubSeq(count, 1, i - 1))
       IN  /\ Len(ret.val.a) = 1 + SumSeq(count)
           /\ \A i \in 1..n : \A k \in 1..count[i] :
                 ret.val.a[offset(i) + k] =
                    Nearest005Frac(edge[i].m * count[i]
                                   + (k - 1) * (edge[i + 1].m - edge[i].m),
                                   count[i])
           /\ ret.val.a[Len(ret.val.a)] = Nearest005(edge[n + 1].m)

\* a list of two zones that count different numbers of points, both more
\* than one
C11_Witness ==
    /\ MultiZoneReturn
    /\ ResolvedScalar.m # 0
    /\ Len(ResolvedEdge.v) = 3
    /\ LET c1 == SpecCount(ResolvedEdge.v, ResolvedRatios.v,
                           ResolvedScalar.m, 1)
           c2 == SpecCount(ResolvedEdge.v, ResolvedRatios.v,
                           ResolvedScalar.m, 2)
       IN  c1 > 1 /\ c2 > 1 /\ c1 # c2 /\ Len(ret.val.a) = 1 + c1 + c2

\* the (test, value) pairs of the exposure list x = [d, test, value, ...]
RulesOf(x) ==
    [j \in 1..((Len(x) - 1) \div 2) |->
        [test |-> x[2 * j].v, value |-> x[2 * j + 1].m]]

PredicateNames == {"less_than", "greater_than", "between", "equals"}

\* the call gives a rule list whose predicates are among the four names
NamedRulesCall ==
    /\ call.exposure_time.ty = "list"
    /\ \A j \in DOMAIN RulesOf(call.exposure_time.v) :
          RulesOf(call.exposure_time.v)[j].test[1].s \in PredicateNames

\* the last rule whose predicate the energy e satisfies, 0 when there is none
LastMatch(rules, e) ==
    LET hits == {j \in DOMAIN rules : RuleHolds(rules[j].test, e)}
    IN  IF hits = {} THEN 0 ELSE CHOOSE j \in hits : \A l \in hits : l <= j

\* C12: construct_exposure_times applies the rules in list order and the
\* last one applied wins: each returned exposure is the override of the last
\* rule of the list that the energy satisfies, and the default
\* exposure_time[0] when it satisfies none.
C12_LastMatchingRuleWins ==
    (Done("construct_exposure_times") /\ ret.status = "returned"
     /\ NamedRulesCall)
    => LET rules == RulesOf(call.exposure_time.v)
           e == call.energies.a
       IN  \A i \in DOMAIN e :
              ret.val.a[i] =
                 IF LastMatch(rules, e[i]) = 0 THEN call.exposure_time.v[1].m
                 ELSE rules[LastMatch(rules, e[i])].value

\* the energies are a plain list or an array of numbers
OrderedNumericEnergies ==
    \/ IsNdArray(call.energies)
    \/ /\ call.energies.ty \in {"list", "tuple"}
       /\ \A i \in DOMAIN call.energies.v : IsNumber(call.energies.v[i])

\* the exposure spec is a number or a rule list with the four predicates
PlainExposureCall ==
    IsNumber(call.exposure_time) \/ NamedRulesCall

\* C13: construct_exposure_times accepts every ordered numeric sequence of
\* energies, a plain list as well as an array, and raises
\* EnergyListTypeError only for energies that are no such sequence.
C13_ListEnergiesAccepted ==
    (Done("construct_exposure_times") /\ call.repeats \in 1..100)
    => /\ ret.err = "EnergyListTypeError" => ~OrderedNumericEnergies
       /\ (OrderedNumericEnergies /\ PlainExposureCall)
            => ret.status = "returned"

\* the call passes the checks made before the rules are read
RulesReached ==
    /\ Done("construct_exposure_times")
    /\ call.repeats \in 1..100
    /\ IsNdArray(call.energies)
    /\ call.exposure_time.ty = "list"

\* C14: the predicate names construct_exposure_times recognizes are exactly
\* less_than, greater_than, between and equals: a rule list with a
\* (predicate, value) pair of any other name, at any place of the list, ends
\* in ExposureRuleError and returns no schedule, and a list with none does
\* not end in ExposureRuleError.
C14_ExactlyFourPredicates ==
    RulesReached
    => LET rules == RulesOf(call.exposure_time.v)
           unknown == {j \in DOMAIN rules :
                          rules[j].test[1].s \notin PredicateNames}
       IN  /\ unknown # {}
                => ret.status = "raised" /\ ret.err = "ExposureRuleError"
           /\ unknown = {} => ret.err # "ExposureRuleError"

\* C15: a call made with quiet = True, of any of the three functions,
\* produces no diagnostic output and no warning: nothing is printed, nothing
\* is plotted and the long-scan warning is not emitted.
C15_QuietGatesDiagnostics ==
    (pc = "done" /\ call.quiet) => diag = NoDiag

\* the call passes a keyword argument of that name, and its value
HasKwarg(name) == \E i \in DOMAIN call.kwargs : call.kwargs[i][1] = name

KwargValue(name) ==
    call.kwargs[CHOOSE i \in DOMAIN call.kwargs : call.kwargs[i][1] = name][2]

\* the lower-cased canonical name a string edge stands for
CanonicalName(edge) ==
    IF Lower(edge.s) \in DOMAIN edge_names
    THEN Lower(edge_names[Lower(edge.s)]) ELSE Lower(edge.s)

\* the list returned for thresholds th and weights w: it runs from the first
\* threshold to the last and counts 1 + sum_i count_i values
ListResolvedAgainst(th, w) ==
    /\ ret.status = "returned"
    /\ ret.val.a[1] = Nearest005(th[1].m)
    /\ ret.val.a[Len(ret.val.a)] = Nearest005(th[Len(th)].m)
    /\ Len(ret.val.a) =
          1 + SumSeq([i \in DOMAIN w |->
                         SpecCount(th, w, ResolvedScalar.m, i)])

\* the zones returned for thresholds th and weights w
ZonesResolvedAgainst(th, w) ==
    /\ ret.status = "returned"
    /\ Len(ret.params) = Len(th) - 1
    /\ \A i \in DOMAIN ret.params :
          ret.params[i] = [start |-> th[i], stop |-> th[i + 1],
                           rate |-> w[i].m * ResolvedScalar.m]

\* C16: the lookup tables are parameters a call can override: a call that
\* supplies an edge table is resolved against the thresholds of the supplied
\* table, and a call that supplies a ratio table takes its defaulted ratios
\* from the supplied table, not from the built-in one.
C16_SuppliedTablesUsed ==
    (/\ pc = "done"
     /\ call.fn \in {"get_energies", "get_nexafs_scan_params"}
     /\ call.edge.ty = "str" /\ RatiosDefaulted /\ IsNumber(ResolvedScalar))
    => /\ (HasKwarg("edges")
           /\ CanonicalName(call.edge) \in DOMAIN KwargValue("edges"))
            => LET th == KwargValue("edges")[CanonicalName(call.edge)]
               IN  IF call.fn = "get_energies"
                   THEN ListResolvedAgainst(th,
                            intervals_table[DefaultKey(Len(th))])
                   ELSE ZonesResolvedAgainst(th,
                            ratios_table[DefaultKey(Len(th))])
       /\ (HasKwarg("ratios_table")
           /\ IsSequence(ResolvedEdge)
           /\ CanonicalName(call.edge) \notin DOMAIN KwargValue("ratios_table")
           /\ DefaultKey(Len(ResolvedEdge.v))
                 \in DOMAIN KwargValue("ratios_table"))
            => LET w == KwargValue("ratios_table")[
                            DefaultKey(Len(ResolvedEdge.v))]
               IN  IF call.fn = "get_energies"
                   THEN ListResolvedAgainst(ResolvedEdge.v, w)
                   ELSE ZonesResolvedAgainst(ResolvedEdge.v, w)

\* C17: construct_exposure_times emits the long-scan warning exactly when
\* the total duration it computed is strictly greater than the warning
\* threshold, and the warning is not fatal: the warning call returns its
\* exposures, one per energy, and the total of the duration formula.
C17_WarningAboveThreshold ==
    Done("construct_exposure_times")
    => /\ diag.warned <=>
             (/\ ret.status = "returned"
              /\ ret.time.n > dafault_warning_step_time * Milli)
       /\ diag.warned
            => LET times == ret.val.a
                   N == Len(times)
                   r == call.repeats
               IN  /\ ret.status = "returned"
                   /\ N = Len(call.energies.a)
                   /\ ret.time.n =
                         SumSeq([i \in DOMAIN times |-> times[i] * r])
                         + (r - 1) * N * Milli + 4 * N * Milli

\* a scan of 1802 seconds was scheduled, returned and warned about
C17_Witness ==
    /\ Done("construct_exposure_times")
    /\ ret.status = "returned"
    /\ ret.time.n = (dafault_warning_step_time + 2) * Milli
    /\ diag.warned

\* how often the value x stands in the list a
Occurrences(a, x) == Cardinality({k \in DOMAIN a : a[k] = x})

\* the rounded value of every interior threshold stands once in the list
InteriorThresholdsOnce ==
    \A i \in 2..(Len(ResolvedEdge.v) - 1) :
       Occurrences(ret.val.a, Nearest005(ResolvedEdge.v[i].m)) = 1

\* C18 as stated: in every list of a successful multi-zone get_energies the
\* rounded value of each interior threshold appears exactly once.
C18_InteriorThresholdsOnce == MultiZoneReturn => InteriorThresholdsOnce

\* the thresholds grow strictly, the frame target is not zero and the
\* points of every zone lie at least 0.1 apart: |E[i+1]-E[i]| / count_i >= 0.1
SpacedIncreasingZones ==
    LET edge == ResolvedEdge.v
        ratios == ResolvedRatios.v
    IN  /\ ResolvedScalar.m # 0
        /\ \A i \in DOMAIN ratios :
              /\ edge[i].m < edge[i + 1].m
              /\ edge[i + 1].m - edge[i].m >=
                    100 * SpecCount(edge, ratios, ResolvedScalar.m, i)

\* C18 as amended: in the list of a successful multi-zone get_energies
\* whose thresholds grow strictly and whose points lie at least 0.1 apart in
\* every zone, the rounded value of each interior threshold appears exactly
\* once.
C18_InteriorThresholdsOnceWhenSpaced ==
    (MultiZoneReturn /\ SpacedIncreasingZones) => InteriorThresholdsOnce

\* a list of five or more values over the thresholds 250, 250.52 and 252
\* that holds 250.5, the rounded middle threshold, once
C18_Witness ==
    /\ MultiZoneReturn /\ SpacedIncreasingZones
    /\ Len(ResolvedEdge.v) = 3
    /\ ResolvedEdge.v[2] = PyFloat(250520)
    /\ Len(ret.val.a) >= 5
    /\ Occurrences(ret.val.a, 250500) = 1

\* the ratio table of the planner called
RatioTable ==
    IF call.fn = "get_energies" THEN intervals_table ELSE ratios_table

\* the length-keyed presets: 'default n' for n thresholds, n in 2..6
LengthKey(n) ==
    CASE n = 2 -> "default 2"
      [] n = 3 -> "default 3"
      [] n = 4 -> "default 4"
      [] n = 5 -> "default 5"
      [] n = 6 -> "default 6"
      [] OTHER -> "no preset"

\* the default ratios by the priority of C19: the preset of the canonical
\* edge name, else the preset 'default n', else n - 1 ones
ExpectedDefaultRatios ==
    LET n == Len(ResolvedEdge.v)
    IN  IF call.edge.ty = "str"
           /\ CanonicalName(call.edge) \in DOMAIN RatioTable
        THEN RatioTable[CanonicalName(call.edge)]
        ELSE IF LengthKey(n) \in DOMAIN RatioTable
        THEN RatioTable[LengthKey(n)]
        ELSE [i \in 1..(n - 1) |-> PyInt(1)]

DefaultedCall ==
    /\ pc = "done"
    /\ call.fn \in {"get_energies", "get_nexafs_scan_params"}
    /\ RatiosDefaulted
    /\ IsSequence(ResolvedEdge) /\ Len(ResolvedEdge.v) >= 2

\* C19: with the ratios None or '' both planners take the preset of the
\* edge's canonical name when the ratio table has one, else the preset
\* 'default n' for n = len(edge) in 2..6, else len(edge) - 1 ones; the
\* default has len(edge) - 1 weights and the call never ends in
\* RatioCountError, for an edge of two or more thresholds.
C19_DefaultRatioOrder ==
    DefaultedCall
    => /\ ResolvedRatios = PyTuple(ExpectedDefaultRatios)
       /\ Len(ResolvedRatios.v) = Len(ResolvedEdge.v) - 1
       /\ ret.err # "RatioCountError"

\* the alias c with the ratios '' took the six weights of the carbon preset
\* and returned
C19_Witness ==
    /\ DefaultedCall
    /\ call.fn = "get_energies"
    /\ call.edge = PyStr("c") /\ call.ratios = PyStr("")
    /\ ResolvedRatios = PyTuple(intervals_table["carbon"])
    /\ ret.status = "returned"

\* the edge table of the planner called
EdgeTable ==
    IF call.fn = "get_energies" THEN energies_edges ELSE nexafs_edges

\* the result of the planner called for the edge argument e, the other
\* arguments as in the call
ResultFor(e) ==
    IF call.fn = "get_energies"
    THEN get_energies(e, call.frames, call.ratios)
    ELSE get_nexafs_scan_params(e, call.speed, call.ratios)

PlannerDone ==
    pc = "done" /\ call.fn \in {"get_energies", "get_nexafs_scan_params"}

\* C20: in both planners a string edge is looked up without regard to case
\* through the alias table and the edge table: every alias key resolves to
\* the thresholds of the canonical name it maps to and gives the result of
\* that name; a tuple or list is the edge as given; a string of neither
\* table ends in EdgeResolutionError; a bare number is an edge for
\* get_energies only and ends in EdgeResolutionError in
\* get_nexafs_scan_params.
C20_EdgeResolution ==
    PlannerDone
    => /\ (call.edge.ty = "str" /\ Lower(call.edge.s) \in AliasKeys)
            => /\ ResolvedEdge =
                     PyTuple(EdgeTable[Lower(edge_names[Lower(call.edge.s)])])
               /\ ret = ResultFor(PyStr(edge_names[Lower(call.edge.s)]))
               /\ ret.err # "EdgeResolutionError"
       /\ (call.edge.ty = "str" /\ Lower(call.edge.s) \in DOMAIN EdgeTable)
            => /\ ResolvedEdge = PyTuple(EdgeTable[Lower(call.edge.s)])
               /\ ret.err # "EdgeResolutionError"
       /\ IsSequence(call.edge)
            => ResolvedEdge = call.edge /\ ret.err # "EdgeResolutionError"
       /\ (/\ call.edge.ty = "str"
           /\ Lower(call.edge.s) \notin AliasKeys
           /\ Lower(call.edge.s) \notin DOMAIN EdgeTable)
            => ret.status = "raised" /\ ret.err = "EdgeResolutionError"
       /\ IsNumber(call.edge)
            => IF call.fn = "get_energies"
               THEN /\ ResolvedEdge = PyTuple(<<call.edge, call.edge>>)
                    /\ ret.err # "EdgeResolutionError"
               ELSE ret.status = "raised" /\ ret.err = "EdgeResolutionError"

\* the alias CK, in capitals, planned as the three zones of the carbon edge
C20_Witness ==
    /\ PlannerDone
    /\ call.fn = "get_nexafs_scan_params"
    /\ call.edge = PyStr("CK")
    /\ ret.status = "returned"
    /\ Len(ret.params) = 3
    /\ \A i \in 1..3 : /\ ret.params[i].start = nexafs_edges["carbon"][i]
                        /\ ret.params[i].stop = nexafs_edges["carbon"][i + 1]

\* the number a numeric string spells, in thousandths
NumberSpelled(s) == CASE s = "5" -> 5 * Milli [] OTHER -> 0

\* the default exposure of an exposure spec: the number itself, 1 for the
\* empty string, the first element of a list or tuple, the number a string
\* spells
DefaultExposure(x) ==
    CASE IsNumber(x) -> x.m
      [] x.ty = "str" /\ x.s = "" -> Milli
      [] x.ty = "str" -> NumberSpelled(x.s)
      [] IsSequence(x) -> x.v[1].m

\* the (test, value) rules of an exposure spec
SpecRules(x) == IF IsSequence(x) THEN RulesOf(x.v) ELSE <<>>

\* C21: for every exposure spec construct_exposure_times accepts (a number,
\* the empty string, a list, or another value such as a tuple or a numeric
\* string) each returned exposure is the default value or the override of a
\* rule whose predicate the energy satisfies; the returned exposures are
\* never the energies given.
C21_ExposuresFromSpecOnly ==
    (Done("construct_exposure_times") /\ ret.status = "returned")
    => LET x == call.exposure_time
           rules == SpecRules(x)
           e == call.energies.a
       IN  /\ Len(ret.val.a) = Len(e)
           /\ \A i \in DOMAIN e :
                 \/ ret.val.a[i] = DefaultExposure(x)
                 \/ \E j \in DOMAIN rules :
                       /\ RuleHolds(rules[j].test, e[i])
                       /\ ret.val.a[i] = rules[j].value

\* the validation errors of the planners
ValidationErrors ==
    {"EdgeResolutionError", "ScalarResolutionError", "RatioCountError",
     "RatioValueError"}

\* the call reaches the loop over the zones: edge, speed and ratios are
\* resolved and the ratios count one weight per zone
ZonesReached ==
    /\ Done("get_nexafs_scan_params")
    /\ IsSequence(ResolvedEdge)
    /\ IsNumber(ResolvedScalar)
    /\ IsSequence(ResolvedRatios)
    /\ Len(ResolvedRatios.v) + 1 = Len(ResolvedEdge.v)

\* a weight or the base speed is below 0.01: zero and negative values too
BadWeightOrSpeed ==
    \/ \E i \in DOMAIN ResolvedRatios.v : ResolvedRatios.v[i].m < 10
    \/ Len(ResolvedRatios.v) >= 1 /\ ResolvedScalar.m < 10

\* C22: get_nexafs_scan_params returns no schedule with a zone rate of zero
\* or less and no negative total duration, and a call with a ratio weight or
\* a base speed below 0.01 (zero, negative) ends in a validation error, not
\* in a returned schedule or an arithmetic fault.
C22_RatesPositive ==
    Done("get_nexafs_scan_params")
    => /\ ret.status = "returned"
            => /\ \A i \in DOMAIN ret.params : ret.params[i].rate > 0
               /\ ret.time.n >= 0
       /\ (ZonesReached /\ BadWeightOrSpeed)
            => ret.status = "raised" /\ ret.err \in ValidationErrors

====
